---- MODULE Spec2Model ----
(***************************************************************************)
(* The call-session behaviour of the VoiceClient React component, in its   *)
(* five source variants:                                                   *)
(*   "v1"    src/src/VoiceClient.jsx, lines 1-216                          *)
(*   "v2"    src/src/VoiceClient.jsx, lines 218-422                        *)
(*   "copy"  src/unnamed/part_000  (VoiceClient copy.jsx)                  *)
(*   "audio" src/unnamed/part_001  (audio fixes, unmount cleanup)          *)
(*   "ui"    src/unnamed/part_002  (mute, inCall panel, handleConnection)  *)
(* The component state is the useState hooks; the endpoint (Twilio Device),*)
(* its calls, the microphone prompt and the token fetch are the            *)
(* environment, whose answers and signals are nondeterministic.  The       *)
(* operations are the component's functions (initDevice, placeCall,        *)
(* hangupCall, toggleMute, the unmount cleanup), callable whenever the     *)
(* component is mounted; the buttons' `disabled` attributes belong to the  *)
(* rendering and are not part of the functions.                            *)
(***************************************************************************)
EXTENDS Naturals, Sequences, FiniteSets

\* Bound of the model: how many objects a behaviour may ask the endpoint
\* library for, counting the initDevice() invocations (each constructs at
\* most one Device) and the calls (placed or incoming).
MaxObjects == 3

Variants == {"v1", "v2", "copy", "audio", "ui"}
DeviceIds == 1..MaxObjects
CallIds == 1..MaxObjects
\* dialTo: blank or a number / agent id
Destinations == {"", "+15551230000"}

VARIABLES
    variant,          \* which source variant is running
    mounted,          \* the component is mounted (logRef.current is set)
    status,           \* useState status: the kind of the status message
    device,           \* useState device: 0 is null, else the endpoint's id
    activeConnection, \* useState activeConnection: 0 is null, else the call's id
    muted,            \* useState muted (part_002)
    inCall,           \* useState inCall (part_002)
    pc,               \* pc[i]: where the i-th initDevice() invocation is suspended
    dev,              \* dev[i]: the endpoint constructed by the i-th initDevice()
    call,             \* call[c]: the state of call c at the endpoint
    callDev,          \* callDev[c]: the endpoint call c belongs to (0: none)
    connMuted,        \* connMuted[c]: the value last given to call c's mute()
    out,              \* what the last step was and what it sent out
    scenario,         \* progress along the initialize/call/hang-up scenario
    toggles,          \* the run of toggleMute() calls that the last step ended
    timers            \* timers[c]: the setTimeout timers of part_001 for call c

vars == <<variant, mounted, status, device, activeConnection, muted, inCall,
          pc, dev, call, callDev, connMuted, out, scenario, toggles, timers>>

----------------------------------------------------------------------------
\* Diagnostics: log(message, type) prepends one line to the log textarea.

Ev(m, t) == [m |-> m, t |-> t]

\* log() of v1 and v2 dereferences logRef.current without a check: once the
\* component is unmounted it throws.  The other variants test logRef.current.
LogThrows == ~mounted /\ variant \in {"v1", "v2"}

\* The lines a step adds to the log: none once the textarea is gone.
Logged(evs) == IF mounted THEN evs ELSE <<>>

\* A state setter of an unmounted component changes nothing.
SetState(new, old) == IF mounted THEN new ELSE old

----------------------------------------------------------------------------
\* The endpoint's side of a call and of a device.

LiveCall == {"connecting", "open"}

\* call.disconnect(): asks the endpoint to end the call; the endpoint
\* confirms later with its disconnect signal.
RequestDisconnect(callF, c) ==
    IF callF[c] \in LiveCall THEN [callF EXCEPT ![c] = "closing"] ELSE callF

\* device.destroy(): the endpoint is unregistered and its calls are gone.
DestroyCalls(callF, callDevF, d) ==
    [c \in CallIds |->
        IF callDevF[c] = d /\ callF[c] \in LiveCall \cup {"closing"}
        THEN "closed" ELSE callF[c]]

\* The cleanup of the effect of part_001, run with the device and the
\* connection the effect closed over.
CleanupCalls(callF, callDevF, d, a) ==
    LET c1 == IF a # 0 THEN RequestDisconnect(callF, a) ELSE callF
    IN  IF d # 0 THEN DestroyCalls(c1, callDevF, d) ELSE c1

CleanupDevs(devF, d) ==
    IF d # 0 THEN [devF EXCEPT ![d] = "destroyed"] ELSE devF

CleanupReqs(d, a) ==
    (IF a # 0 THEN {"disconnect"} ELSE {}) \cup (IF d # 0 THEN {"destroy"} ELSE {})

\* useEffect(..., [device, activeConnection]) of part_001: React runs the
\* previous cleanup whenever a render changed one of the two dependencies.
EffectReruns(device2, ac2) ==
    /\ variant = "audio"
    /\ mounted
    /\ (device2 # device \/ ac2 # activeConnection)

FreeCalls == {c \in CallIds : call[c] = "none"}
NextCall == CHOOSE c \in FreeCalls : \A x \in FreeCalls : c <= x
IdleInits == {i \in DeviceIds : pc[i] = "idle"}
NextInit == CHOOSE i \in IdleInits : \A x \in IdleInits : i <= x
ObjectsUsed ==
    Cardinality(DeviceIds \ IdleInits) + Cardinality(CallIds \ FreeCalls)
\* The bound leaves room for one more initDevice() or one more call.
Room == ObjectsUsed < MaxObjects

----------------------------------------------------------------------------
\* The session state of the specification, read off the component.

\* The phase a status message stands for.
StatusPhase(s) ==
    CASE s = "Device not initialized" -> "Uninitialized"
      [] s \in {"Requesting token...", "Requesting microphone..."} -> "AcquiringToken"
      [] s = "Device initializing..." -> "Registering"
      [] s \in {"Device registered & ready", "Device ready", "Call disconnected"} -> "Ready"
      [] s = "Calling" -> "Dialing"
      [] s \in {"Call connected", "Muted", "Unmuted"} -> "InCall"
      [] OTHER -> "Failed"

\* No variant has a status message for Ending: it is read as the time in which
\* the status still shows a call, a disconnect was requested and is not yet
\* confirmed, and no call is live.  The state is discarded on unmount.
Phase ==
    IF ~mounted THEN "Uninitialized"
    ELSE IF /\ StatusPhase(status) \in {"Dialing", "InCall"}
            /\ \E c \in CallIds : call[c] = "closing"
            /\ \A c \in CallIds : call[c] \notin LiveCall
         THEN "Ending"
         ELSE StatusPhase(status)

ActiveCallId == IF mounted THEN activeConnection ELSE 0

Muted == mounted /\ muted

LastError ==
    CASE ~mounted -> "none"
      [] status = "Init failed: permission" -> "PermissionDenied"
      [] status = "Init failed: token" -> "TokenRequestFailed"
      [] status = "Device error" -> "EndpointError"
      [] status \in {"Init failed", "Call failed"} -> "Other"
      [] OTHER -> "none"

----------------------------------------------------------------------------
\* The scenario of the specification: initialize() succeeds, registered,
\* placeCall(destination), connect, hangUp(), disconnect, with nothing else
\* in between.  Any other step leaves the scenario.
ScenarioNext(op, dest, pc2) ==
    CASE scenario = "start" /\ op = "initDevice" ->
             IF \E i \in DeviceIds : pc2[i] = "mic" THEN "permission" ELSE "token"
      [] scenario = "permission" /\ op = "micGranted" -> "token"
      [] scenario = "token" /\ op = "tokenOk" -> "registering"
      [] scenario = "registering" /\ op = "registered" -> "ready"
      [] scenario = "ready" /\ op = "placeCall" /\ dest # "" -> "dialing"
      [] scenario = "dialing" /\ op = "connect" -> "incall"
      [] scenario = "incall" /\ op = "hangupCall" -> "ending"
      [] scenario = "ending" /\ op = "disconnect" -> "done"
      [] OTHER -> "off"

\* The run of consecutive toggleMute() calls made in phase InCall: how many
\* (1 or 2; a third starts a new run) and the value muted had before the
\* first of them.  Any other step ends the run.
NoToggles == [n |-> 0, base |-> FALSE]

TogglesNext(op) ==
    IF op = "toggleMute" /\ Phase = "InCall"
    THEN IF toggles.n = 1 THEN [toggles EXCEPT !.n = 2]
                          ELSE [n |-> 1, base |-> Muted]
    ELSE NoToggles

----------------------------------------------------------------------------
\* The timers of setupConnectionAudio (part_001 181-254), per call.
\*   "none"    setupConnectionAudio has not run for the call
\*   "retry1", "retry2"
\*             the call's mute control was not there and a retry is pending
\*             (193: setTimeout(() => setupConnectionAudio(...), 200)); the
\*             code keeps no count of the retries, and the two values tell a
\*             retry from the one that set it
\*   "unmute"  the mute control was found and the delayed unmute (237-248,
\*             500 ms) is pending
\*   "done"    the delayed unmute has run
\* Timers for one call are kept as one: a retry still pending when another
\* handler finds the mute control would only repeat what that handler did.
RetryPending == {"retry1", "retry2"}

\* The timers after a step: the timer that ran is gone, and the timer the
\* step asked for (reqs) is pending.
TimersNext(op, c, reqs) ==
    CASE "unmuteTimer" \in reqs -> [timers EXCEPT ![c] = "unmute"]
      [] "retryTimer" \in reqs ->
             [timers EXCEPT ![c] = IF timers[c] = "retry1" THEN "retry2"
                                   ELSE "retry1"]
      [] op = "unmuteTimer" -> [timers EXCEPT ![c] = "done"]
      [] OTHER -> timers

----------------------------------------------------------------------------
\* One step of the component: a handler ran to its end (or to the exception
\* it threw).  The arguments with suffix 2 are the values the handler asked
\* for; the setters of an unmounted component are dropped, and in part_001
\* the effect cleanup runs when the render changed device or activeConnection.
Step(op, dest, c, status2, device2, ac2, muted2, inCall2, pc2, dev2, call2, callDev2, connMuted2, reqs, events, threw) ==
    LET d3 == SetState(device2, device)
        a3 == SetState(ac2, activeConnection)
        eff == EffectReruns(d3, a3)
    IN  /\ status' = SetState(status2, status)
        /\ device' = d3
        /\ activeConnection' = a3
        /\ muted' = SetState(muted2, muted)
        /\ inCall' = SetState(inCall2, inCall)
        /\ pc' = pc2
        /\ dev' = IF eff THEN CleanupDevs(dev2, device) ELSE dev2
        /\ call' = IF eff THEN CleanupCalls(call2, callDev2, device, activeConnection)
                   ELSE call2
        /\ callDev' = callDev2
        /\ connMuted' = connMuted2
        /\ out' = [op |-> op, dest |-> dest, call |-> c,
                   reqs |-> reqs \cup
                       (IF eff THEN CleanupReqs(device, activeConnection) ELSE {}),
                   events |-> Logged(events), threw |-> threw]
        /\ scenario' = ScenarioNext(op, dest, pc2)
        /\ toggles' = TogglesNext(op)
        /\ timers' = TimersNext(op, c, reqs)
        /\ UNCHANGED <<variant, mounted>>

Init ==
    /\ variant \in Variants
    /\ mounted = TRUE
    /\ status = "Device not initialized"
    /\ device = 0
    /\ activeConnection = 0
    /\ muted = FALSE
    /\ inCall = FALSE
    /\ pc = [i \in DeviceIds |-> "idle"]
    /\ dev = [i \in DeviceIds |-> "none"]
    /\ call = [c \in CallIds |-> "none"]
    /\ callDev = [c \in CallIds |-> 0]
    /\ connMuted = [c \in CallIds |-> FALSE]
    /\ out = [op |-> "mount", dest |-> "", call |-> 0, reqs |-> {},
              events |-> <<>>, threw |-> FALSE]
    /\ scenario = "start"
    /\ toggles = NoToggles
    /\ timers = [c \in CallIds |-> "none"]

----------------------------------------------------------------------------
\* initDevice(), up to its first await.
\*   v1    VoiceClient.jsx 50-54     audio part_001 100-106   ui part_002 64-69
\*   copy  part_000 37-42 (setStatus: no log line)
\*   v2    VoiceClient.jsx 266-270 and getToken 244-255: no microphone
\*         request, the token is fetched at once
InitDevice ==
    /\ mounted
    /\ Room
    /\ LET i == NextInit
           toMic == variant # "v2"
       IN  Step("initDevice", "", 0,
                IF variant = "copy" THEN "Requesting microphone..."
                                    ELSE "Requesting token...",
                device, activeConnection, muted, inCall,
                [pc EXCEPT ![i] = IF toMic THEN "mic" ELSE "token"],
                dev, call, callDev, connMuted,
                IF toMic THEN {"getUserMedia"} ELSE {"token"},
                CASE variant = "copy" -> <<>>
                  [] variant = "v2" -> <<Ev("Requesting token...", "info"),
                                         Ev("Requesting token from", "info")>>
                  [] OTHER -> <<Ev("Requesting token...", "info")>>,
                FALSE)

\* getUserMedia resolved: initDevice goes on to getToken(), which logs and
\* issues the POST.
\*   v1 54-56, 28-39   copy 42-55, 27-32   audio 106-115, 30-37   ui 69-71, 45-53
\* Unmounted, the log() of v1 throws inside getToken, and again in the catch.
MicGranted(i) ==
    /\ pc[i] = "mic"
    /\ IF LogThrows
       THEN Step("micGranted", "", 0, status, device, activeConnection, muted,
                 inCall, [pc EXCEPT ![i] = "done"], dev, call, callDev,
                 connMuted, {}, <<>>, TRUE)
       ELSE Step("micGranted", "", 0, status, device, activeConnection, muted,
                 inCall, [pc EXCEPT ![i] = "token"], dev, call, callDev,
                 connMuted, {"token"},
                 CASE variant = "copy" -> <<Ev("Microphone granted", "success"),
                                            Ev("Microphone pinned alive", "success")>>
                   [] variant = "audio" -> <<Ev("Microphone access granted", "success"),
                                             Ev("Requesting token from", "info")>>
                   [] OTHER -> <<Ev("Requesting token from", "info")>>,
                 FALSE)

\* getUserMedia rejected: the catch of initDevice reports "Init failed".
\*   v1 120-122   copy 100-103   audio 110-113, 174-177   ui 112-114
MicDenied(i) ==
    /\ pc[i] = "mic"
    /\ Step("micDenied", "", 0, "Init failed: permission",
            device, activeConnection, muted, inCall,
            [pc EXCEPT ![i] = "done"], dev, call, callDev, connMuted, {},
            CASE variant = "audio" -> <<Ev("Microphone permission denied", "error"),
                                        Ev("Init failed", "error"),
                                        Ev("Init error", "error")>>
              [] OTHER -> <<Ev("Init failed", "error")>>,
            LogThrows)

\* The events of setupAudioOutput(deviceInstance) of part_001 (45-98) when a
\* default output exists.
SetupAudioOutputEvents ==
    <<Ev("Available output devices", "info"), Ev("Speaker set", "success"),
      Ev("Audio input devices", "info"), Ev("Audio output devices", "info"),
      Ev("Is input device set", "info"), Ev("Is output device set", "info"),
      Ev("Speaker device IDs", "info")>>

\* The rest of initDevice once a token is there: construct the Device, attach
\* the handlers, register().
\*   v1 58-119   copy 58-98   audio 117-172   ui 73-111
\*   v2 282-315: setDevice at once, no register()
ConstructDevice(i, op, first) ==
    Step(op, "", 0,
         IF variant = "copy" THEN status ELSE "Device initializing...",
         IF variant = "v2" THEN i ELSE device,
         activeConnection, muted, inCall,
         [pc EXCEPT ![i] = IF variant = "v2" THEN "done" ELSE "register"],
         [dev EXCEPT ![i] = IF variant = "v2" THEN "constructed" ELSE "registering"],
         call, callDev, connMuted,
         {"construct"} \cup (IF variant = "v2" THEN {} ELSE {"register"})
                       \cup (IF variant = "v1" THEN {"selectOutput"} ELSE {}),
         IF variant = "copy" THEN <<>>
         ELSE first \o <<Ev("Device initializing...", "info")>>,
         FALSE)

\* The catch of initDevice after a failure that is not the microphone's.
\*   v1 120-122   v2 316-318   copy 100-103   audio 174-177   ui 112-114
InitFailed(i, op, st) ==
    Step(op, "", 0, st, device, activeConnection, muted, inCall,
         [pc EXCEPT ![i] = "done"], dev, call, callDev, connMuted, {},
         CASE variant = "audio" -> <<Ev("Init failed", "error"),
                                     Ev("Init error", "error")>>
           [] OTHER -> <<Ev("Init failed", "error")>>,
         LogThrows)

\* The token POST answered with a success status.
\*   getToken: v1 41-47   v2 257-263   copy 33-34   audio 38-41   ui 55-61
\* Unmounted, log("Token received") of v1 and v2 throws: nothing is constructed.
TokenOk(i) ==
    /\ pc[i] = "token"
    /\ IF LogThrows
       THEN InitFailed(i, "tokenOk", status)
       ELSE ConstructDevice(i, "tokenOk", <<Ev("Token received", "success")>>)

\* The token POST answered with a non-success status.  v1, v2, audio and ui
\* throw on !res.ok.  copy (part_000 27-35) never looks at the status: it
\* parses the body, and goes on with data.token, whatever it is, when the
\* body parses; whether the endpoint can be constructed from it is the
\* endpoint's choice.
TokenFail(i) ==
    /\ pc[i] = "token"
    /\ IF variant = "copy"
       THEN \E constructs \in BOOLEAN :
                IF constructs THEN ConstructDevice(i, "tokenFail", <<>>)
                ELSE InitFailed(i, "tokenFail", "Init failed")
       ELSE InitFailed(i, "tokenFail", "Init failed: token")

\* await twilioDevice.register() rejected.
\*   v1 119-122   copy 98-103   audio 172-177   ui 111-114
RegisterRejected(i) ==
    /\ pc[i] = "register"
    /\ dev[i] = "registering"
    /\ Step("registerRejected", "", 0, "Init failed",
            device, activeConnection, muted, inCall,
            [pc EXCEPT ![i] = "done"], [dev EXCEPT ![i] = "constructed"],
            call, callDev, connMuted, {},
            CASE variant = "audio" -> <<Ev("Init failed", "error"),
                                        Ev("Init error", "error")>>
              [] OTHER -> <<Ev("Init failed", "error")>>,
            LogThrows)

----------------------------------------------------------------------------
\* The endpoint's signals.  A handler only calls setters and the endpoint, so
\* it acts on the state of the moment, whichever render registered it.

\* "registered", also delivered again (re-registration).
\*   v1 77-80   copy 75-79   audio 137-141   ui 79-82   (v2: no handler)
Registered(i) ==
    /\ dev[i] \in {"registering", "registered"}
    /\ Step("registered", "", 0,
            IF variant = "copy" THEN "Device ready" ELSE "Device registered & ready",
            IF LogThrows THEN device ELSE i,
            activeConnection, muted, inCall,
            [pc EXCEPT ![i] = IF pc[i] = "register" THEN "done" ELSE pc[i]],
            [dev EXCEPT ![i] = "registered"],
            call, callDev, connMuted,
            IF variant = "audio" THEN {"selectOutput"} ELSE {},
            CASE variant = "copy" -> <<Ev("Twilio registered", "success")>>
              [] variant = "audio" ->
                     <<Ev("Device registered & ready", "success")>>
                     \o SetupAudioOutputEvents
              [] OTHER -> <<Ev("Device registered & ready", "success")>>,
            LogThrows)

\* "ready", which a registered endpoint may announce.
\*   v1 82-84   v2 290-292   audio 148-151   ui 84-86   (copy: no handler)
DeviceReady(i) ==
    /\ dev[i] = "registered"
    /\ variant # "copy"
    /\ Step("ready", "", 0, "Device ready",
            device, activeConnection, muted, inCall, pc, dev, call, callDev,
            connMuted,
            IF variant = "audio" THEN {"selectOutput"} ELSE {},
            IF variant = "audio"
            THEN <<Ev("Device ready", "success")>> \o SetupAudioOutputEvents
            ELSE <<Ev("Device ready", "success")>>,
            LogThrows)

\* "error", from an endpoint that was constructed and not destroyed.
\*   v1 86-88   v2 295-297   audio 143-146   ui 88-90
\* part_000 attaches no handler for it (58-98): the signal reaches nothing
\* of the component.
DeviceError(i) ==
    /\ dev[i] \in {"constructed", "registering", "registered"}
    /\ IF variant = "copy"
       THEN Step("error", "", 0, status, device, activeConnection, muted,
                 inCall, pc, dev, call, callDev, connMuted, {}, <<>>, FALSE)
       ELSE Step("error", "", 0, "Device error",
                 device, activeConnection, muted, inCall, pc, dev, call,
                 callDev, connMuted, {},
                 IF variant = "audio"
                 THEN <<Ev("Device error", "error"),
                        Ev("Device error details", "error")>>
                 ELSE <<Ev("Device error", "error")>>,
                 LogThrows)

\* "deviceChange" of the endpoint's audio helper: the list of output devices
\* changed; the handler selects the default output again.
\*   v1 70-75   audio 132-135 (setupAudioOutput)
\* v2, part_000 and part_002 attach no handler for it: the notification
\* reaches nothing of the component.
\* Unmounted, the log() of v1 throws before the output is selected.
AudioDeviceChange(i) ==
    /\ dev[i] \in {"constructed", "registering", "registered"}
    /\ IF variant \in {"v1", "audio"}
       THEN Step("deviceChange", "", 0, status, device, activeConnection,
                 muted, inCall, pc, dev, call, callDev, connMuted,
                 IF LogThrows THEN {} ELSE {"selectOutput"},
                 IF variant = "audio"
                 THEN <<Ev("Audio devices changed", "info")>>
                      \o SetupAudioOutputEvents
                 ELSE <<Ev("Audio devices changed", "info")>>,
                 LogThrows)
       ELSE Step("deviceChange", "", 0, status, device, activeConnection,
                 muted, inCall, pc, dev, call, callDev, connMuted, {}, <<>>,
                 FALSE)

\* The endpoint holds a call that is not confirmed disconnected.
Busy(d) == \E c \in CallIds : callDev[c] = d /\ call[c] \in LiveCall \cup {"closing"}

\* The events of setupConnectionAudio(connection, deviceInstance) of part_001
\* (181-254) for a connection whose mute() exists.
SetupConnectionAudioEvents ==
    <<Ev("Connection unmuted", "success")>> \o
    <<SetupAudioOutputEvents[1], SetupAudioOutputEvents[2],
      Ev("Connection unmuted", "success")>> \o
    SubSeq(SetupAudioOutputEvents, 3, Len(SetupAudioOutputEvents)) \o
    <<Ev("Connection status", "info"), Ev("Connection muted", "info")>>

\* typeof connection.mute === "function" (part_001 190): whether the call's
\* mute control is there is the endpoint's choice, until it was found once.
\* The other variants do not ask.
MuteControl(c) ==
    IF variant = "audio" /\ timers[c] \in RetryPending \cup {"none"} THEN BOOLEAN
    ELSE {TRUE}

\* What setupConnectionAudio asks for (part_001 181-254): without the mute
\* control another try in 200 ms; with it mute(false), the output, the
\* listeners and the delayed unmute.
SetupConnectionAudioReqs(ready) ==
    IF ready THEN {"mute", "selectOutput", "volumeListener", "unmuteTimer"}
    ELSE {"retryTimer"}

SetupConnectionAudioLog(ready) ==
    IF ready THEN SetupConnectionAudioEvents
    ELSE <<Ev("Connection not ready yet", "info")>>

\* The log lines of handleConnection(conn) of part_002 (118-135); the second
\* line is written when the connection carries a CallSid.
HandleConnectionEvents(sid) ==
    <<Ev("Call connected", "success")>>
    \o (IF sid THEN <<Ev("Call connected. CallSid", "success")>> ELSE <<>>)

\* "incoming": a registered endpoint that holds no call offers call c; the
\* handler accepts it at once.
\*   v1 90-94   audio 153-158   ui 92-96   (copy: no handler; v2 never registers)
\* Unmounted, the log() of v1 throws before accept().
Incoming(i) ==
    /\ dev[i] = "registered"
    /\ ~Busy(i)
    /\ Room
    /\ variant # "copy"
    /\ \E sid \in BOOLEAN, ready \in MuteControl(NextCall) :
       LET c == NextCall
       IN  IF LogThrows
           THEN Step("incoming", "", c, status, device, activeConnection, muted,
                     inCall, pc, dev, call, callDev, connMuted, {}, <<>>, TRUE)
           ELSE Step("incoming", "", c,
                     IF variant = "ui" THEN "Call connected" ELSE status,
                     device, c,
                     IF variant = "ui" THEN FALSE ELSE muted,
                     IF variant = "ui" THEN TRUE ELSE inCall,
                     pc, dev,
                     [call EXCEPT ![c] = "connecting"],
                     [callDev EXCEPT ![c] = i],
                     IF variant = "audio" /\ ready
                     THEN [connMuted EXCEPT ![c] = FALSE] ELSE connMuted,
                     CASE variant = "audio" ->
                              {"accept"} \cup SetupConnectionAudioReqs(ready)
                       [] variant = "ui" -> {"accept", "volumeListener"}
                       [] OTHER -> {"accept"},
                     CASE variant = "audio" ->
                              <<Ev("Incoming call", "info")>>
                              \o SetupConnectionAudioLog(ready)
                       [] variant = "ui" -> <<Ev("Incoming call", "info")>>
                                            \o HandleConnectionEvents(sid)
                       [] OTHER -> <<Ev("Incoming call", "info")>>,
                     FALSE)

\* "connect" for call c, which the endpoint may deliver for a call it was
\* asked to set up and has not confirmed disconnected, also after a
\* disconnect request and also twice.
\*   v1 96-111   v2 305-308   copy 81-91   audio 160-164, 181-254
\*   ui 98-100 and handleConnection 118-164 (which never calls conn.mute)
Connect(c) ==
    /\ call[c] \in LiveCall \cup {"closing"}
    /\ \E sid \in BOOLEAN, ready \in MuteControl(c) :
       LET call2 == [call EXCEPT ![c] = IF call[c] = "connecting" THEN "open"
                                        ELSE call[c]]
       IN  IF LogThrows
           THEN Step("connect", "", c, status, device, activeConnection, muted,
                     inCall, pc, dev, call2, callDev, connMuted, {}, <<>>, TRUE)
           ELSE Step("connect", "", c,
                     IF variant = "copy" THEN status ELSE "Call connected",
                     device, c,
                     IF variant = "ui" THEN FALSE ELSE muted,
                     IF variant = "ui" THEN TRUE ELSE inCall,
                     pc, dev, call2, callDev,
                     IF variant \in {"v1", "copy"} \/ (variant = "audio" /\ ready)
                     THEN [connMuted EXCEPT ![c] = FALSE] ELSE connMuted,
                     CASE variant = "v1" ->
                              {"selectOutput", "mute", "volumeListener"}
                       [] variant = "audio" -> SetupConnectionAudioReqs(ready)
                       [] variant = "copy" -> {"mute", "volumeListener"}
                       [] variant = "ui" -> {"volumeListener"}
                       [] OTHER -> {},
                     CASE variant = "audio" ->
                              <<Ev("Call connected", "success")>>
                              \o SetupConnectionAudioLog(ready)
                       [] variant = "ui" -> HandleConnectionEvents(sid)
                       [] OTHER -> <<Ev("Call connected", "success")>>,
                     FALSE)

\* "disconnect" for call c: the endpoint confirms that the call is over,
\* possibly more than once.
\*   v1 113-116   v2 310-313   copy 93-96   audio 166-169   ui 102-108
Disconnect(c) ==
    /\ call[c] \in LiveCall \cup {"closing", "closed"}
    /\ dev[callDev[c]] # "destroyed"
    /\ Step("disconnect", "", c,
            IF variant = "copy" THEN status ELSE "Call disconnected",
            device,
            IF LogThrows THEN activeConnection ELSE 0,
            IF variant = "ui" THEN FALSE ELSE muted,
            IF variant = "ui" THEN FALSE ELSE inCall,
            pc, dev, [call EXCEPT ![c] = "closed"], callDev, connMuted, {},
            <<Ev("Call disconnected", "info")>>,
            LogThrows)

----------------------------------------------------------------------------
\* The timers of part_001.  They are not cleared by anything: they run
\* whatever became of the call and of the component.

\* The retry timer of call c runs setupConnectionAudio again (193, 181-254).
RetryTimer(c) ==
    /\ timers[c] \in RetryPending
    /\ \E ready \in MuteControl(c) :
           Step("retryTimer", "", c, status, device, activeConnection, muted,
                inCall, pc, dev, call, callDev,
                IF ready THEN [connMuted EXCEPT ![c] = FALSE] ELSE connMuted,
                SetupConnectionAudioReqs(ready), SetupConnectionAudioLog(ready),
                FALSE)

\* The delayed unmute of call c (237-248): mute(false) when the call's
\* status() is "open", nothing otherwise.
UnmuteTimer(c) ==
    /\ timers[c] = "unmute"
    /\ IF call[c] = "open"
       THEN Step("unmuteTimer", "", c, status, device, activeConnection, muted,
                 inCall, pc, dev, call, callDev,
                 [connMuted EXCEPT ![c] = FALSE], {"mute"},
                 <<Ev("Force unmuted connection (delayed)", "success")>>, FALSE)
       ELSE Step("unmuteTimer", "", c, status, device, activeConnection, muted,
                 inCall, pc, dev, call, callDev, connMuted, {}, <<>>, FALSE)

----------------------------------------------------------------------------
\* The operations of the component.

\* C9, the fault the property is tested against: placeCall without the
\* check of the destination.
PlaceCallRejects_NoDestination(dest) == device = 0

\* placeCall() was given no endpoint or no destination: it logs and returns.
\*   v1 126-127   v2 322-323   copy 107-108   audio 257-258   ui 167-168
PlaceCallRejects(dest) == device = 0 \/ dest = ""

\* placeCall: v1 125-132   v2 321-328   copy 106-115   audio 256-272   ui 166-173
\* device.connect() on a destroyed endpoint throws; on an endpoint that
\* already holds a call it either throws or sets up a second call, as the
\* endpoint chooses.  Only part_001 catches.  part_002 does not keep the
\* connection: it waits for the connect signal.
PlaceCall(dest) ==
    /\ mounted
    /\ IF PlaceCallRejects(dest)
       THEN Step("placeCall", dest, 0, status, device, activeConnection, muted,
                 inCall, pc, dev, call, callDev, connMuted, {},
                 IF device = 0 THEN <<Ev("Device not initialized", "error")>>
                               ELSE <<Ev("Enter number / agent ID", "error")>>,
                 FALSE)
       ELSE \E refuses \in BOOLEAN :
            IF dev[device] = "destroyed" \/ (Busy(device) /\ refuses)
            THEN Step("placeCall", dest, 0,
                      IF variant = "audio" THEN "Call failed" ELSE "Calling",
                      device, activeConnection, muted, inCall,
                      pc, dev, call, callDev, connMuted, {"connect"},
                      CASE variant = "audio" -> <<Ev("Calling", "info"),
                                                  Ev("Error placing call", "error"),
                                                  Ev("Call failed", "error")>>
                        [] variant = "copy" -> <<>>
                        [] OTHER -> <<Ev("Calling", "info")>>,
                      variant # "audio")
            ELSE /\ Room
                 /\ LET c == NextCall
                    IN  Step("placeCall", dest, c, "Calling", device,
                             IF variant = "ui" THEN activeConnection ELSE c,
                             muted, inCall, pc, dev,
                             [call EXCEPT ![c] = "connecting"],
                             [callDev EXCEPT ![c] = device],
                             connMuted, {"connect"},
                             CASE variant = "audio" -> <<Ev("Calling", "info"),
                                                         Ev("Call initiated", "info")>>
                               [] variant = "copy" -> <<>>
                               [] OTHER -> <<Ev("Calling", "info")>>,
                             FALSE)

\* C11, the fault the property is tested against: hangupCall without its
\* check of activeConnection.
HangupCallRejects_Never == FALSE

\* hangupCall() has no active connection: it returns at once.
\*   v1 135   v2 331   copy 118   audio 275   ui 176
HangupCallRejects == activeConnection = 0

\* hangupCall: v1 134-138   v2 330-334   copy 117-121 (no log line)
\*             audio 274-278   ui 175-178 (keeps activeConnection until the
\*             disconnect signal)
HangupCall ==
    /\ mounted
    /\ IF HangupCallRejects
       THEN Step("hangupCall", "", 0, status, device, activeConnection, muted,
                 inCall, pc, dev, call, callDev, connMuted, {},
                 IF variant = "copy" THEN <<>> ELSE <<Ev("No active call", "info")>>,
                 FALSE)
       ELSE IF activeConnection = 0
       THEN \* null.disconnect(): a TypeError, before anything is sent
            Step("hangupCall", "", 0, status, device, activeConnection, muted,
                 inCall, pc, dev, call, callDev, connMuted, {}, <<>>, TRUE)
       ELSE Step("hangupCall", "", activeConnection, status, device,
                 IF variant = "ui" THEN activeConnection ELSE 0,
                 muted, inCall, pc, dev,
                 RequestDisconnect(call, activeConnection),
                 callDev, connMuted, {"disconnect"}, <<>>, FALSE)

\* C12, the fault the property is tested against: toggleMute that always
\* mutes.
NewMuted_AlwaysMutes == TRUE

\* const newMuted = !muted (part_002 182)
NewMuted == ~muted

\* toggleMute, of part_002 only: 180-186
ToggleMute ==
    /\ mounted
    /\ variant = "ui"
    /\ IF activeConnection = 0
       THEN Step("toggleMute", "", 0, status, device, activeConnection, muted,
                 inCall, pc, dev, call, callDev, connMuted, {}, <<>>, FALSE)
       ELSE LET newMuted == NewMuted
            IN  Step("toggleMute", "", activeConnection,
                     IF newMuted THEN "Muted" ELSE "Unmuted",
                     device, activeConnection, newMuted, inCall, pc, dev, call,
                     callDev, [connMuted EXCEPT ![activeConnection] = newMuted],
                     {"mute"},
                     <<Ev(IF newMuted THEN "Muted" ELSE "Unmuted", "info")>>,
                     FALSE)

\* The component is unmounted.  Only part_001 (281-290) has a cleanup: it
\* disconnects the activeConnection and destroys the device of its last
\* render.  The other variants leave the endpoint and its calls as they are.
Unmount ==
    /\ mounted
    /\ mounted' = FALSE
    /\ LET cleans == variant = "audio"
       IN  /\ dev' = IF cleans THEN CleanupDevs(dev, device) ELSE dev
           /\ call' = IF cleans
                      THEN CleanupCalls(call, callDev, device, activeConnection)
                      ELSE call
           /\ out' = [op |-> "unmount", dest |-> "", call |-> 0,
                      reqs |-> IF cleans THEN CleanupReqs(device, activeConnection)
                               ELSE {},
                      events |-> <<>>, threw |-> FALSE]
    /\ scenario' = "off"
    /\ toggles' = NoToggles
    /\ UNCHANGED <<variant, status, device, activeConnection, muted, inCall,
                   pc, callDev, connMuted, timers>>

Next ==
    \/ InitDevice
    \/ \E i \in DeviceIds : MicGranted(i)
    \/ \E i \in DeviceIds : MicDenied(i)
    \/ \E i \in DeviceIds : TokenOk(i)
    \/ \E i \in DeviceIds : TokenFail(i)
    \/ \E i \in DeviceIds : RegisterRejected(i)
    \/ \E i \in DeviceIds : Registered(i)
    \/ \E i \in DeviceIds : DeviceReady(i)
    \/ \E i \in DeviceIds : DeviceError(i)
    \/ \E i \in DeviceIds : AudioDeviceChange(i)
    \/ \E i \in DeviceIds : Incoming(i)
    \/ \E c \in CallIds : Connect(c)
    \/ \E c \in CallIds : Disconnect(c)
    \/ \E c \in CallIds : RetryTimer(c)
    \/ \E c \in CallIds : UnmuteTimer(c)
    \/ \E dest \in Destinations : PlaceCall(dest)
    \/ HangupCall
    \/ ToggleMute
    \/ Unmount

Spec == Init /\ [][Next]_vars

\* What the platform owes the component: every request that initDevice()
\* awaits is answered.  The microphone prompt resolves or rejects, the token
\* POST is answered, and the promise of register() settles.  Nothing is owed
\* by the user or by the endpoint's unsolicited signals.  A timer that was
\* set runs: the event loop is never blocked.
Answers ==
    /\ \A i \in DeviceIds :
           /\ WF_vars(MicGranted(i) \/ MicDenied(i))
           /\ WF_vars(TokenOk(i) \/ TokenFail(i))
           /\ WF_vars(pc[i] = "register" /\ (Registered(i) \/ RegisterRejected(i)))
    /\ \A c \in CallIds :
           /\ WF_vars(RetryTimer(c))
           /\ WF_vars(UnmuteTimer(c))

SpecLive == Spec /\ Answers

----------------------------------------------------------------------------
\* The claims.

CallPhases == {"Dialing", "InCall", "Ending"}

\* Some line of the given level was logged by the last step.
Reported(o, level) == \E k \in 1..Len(o.events) : o.events[k].t = level

\* C1: in every reachable state activeCallId is set if and only if the phase
\* is one of Dialing, InCall, Ending.
C1_ActiveCallIffCallPhase ==
    (ActiveCallId # 0) <=> (Phase \in CallPhases)

\* C2: a connect signal delivered for a call whose disconnect was already
\* requested by hangUp() does not enter InCall and does not set activeCallId
\* to that call again.
C2_StaleConnectIgnored ==
    [][(out'.op = "connect" /\ call[out'.call] = "closing")
          => (Phase' # "InCall" /\ ActiveCallId' # out'.call)]_vars

\* C3: placeCall invoked while the phase is Dialing or InCall issues no connect
\* request to the endpoint and is rejected with an error diagnostic.
C3_SecondPlaceCallRejected ==
    [][(out'.op = "placeCall" /\ Phase \in {"Dialing", "InCall"})
          => ("connect" \notin out'.reqs /\ Reported(out', "error"))]_vars

\* C4: teardown (the unmount of the component) from any phase raises no error,
\* ends in Uninitialized, has asked the active call to disconnect if one is
\* set, and has destroyed every endpoint that was constructed.
C4_TeardownReleasesEverything ==
    [][out'.op = "unmount"
          => /\ Phase' = "Uninitialized"
             /\ ~out'.threw
             /\ (activeConnection # 0 => call'[activeConnection] \notin LiveCall)
             /\ \A i \in DeviceIds :
                    dev[i] \in {"constructed", "registering", "registered"}
                        => dev'[i] = "destroyed"]_vars

\* C5: along the scenario initialize() succeeds, registered, placeCall with a
\* destination, connect, hangUp(), disconnect, the phase is Ready after the
\* registered signal, InCall with activeCallId set after the connect signal,
\* and Ready with activeCallId null after the disconnect signal.
C5_CallScenario ==
    /\ scenario = "ready" => Phase = "Ready"
    /\ scenario = "incall" => (Phase = "InCall" /\ ActiveCallId # 0)
    /\ scenario = "done" => (Phase = "Ready" /\ ActiveCallId = 0)

\* C6: a refused microphone permission ends in Failed with lastError
\* PermissionDenied, without a token request and without an endpoint; and a
\* token request is only ever issued by the step in which the microphone
\* permission was granted.
C6_TokenOnlyAfterPermission ==
    [][/\ (out'.op = "micDenied" /\ mounted)
            => /\ Phase' = "Failed"
               /\ LastError' = "PermissionDenied"
               /\ out'.reqs = {}
               /\ dev' = dev
       /\ "token" \in out'.reqs => out'.op = "micGranted"]_vars

\* C7: initialize() while the phase is Ready or InCall is a no-op: no
\* microphone or token request, no new endpoint, phase, activeCallId and muted
\* unchanged, and a diagnostic is reported.
C7_InitializeWhenReadyIsNoOp ==
    [][(out'.op = "initDevice" /\ Phase \in {"Ready", "InCall"})
          => /\ out'.reqs = {}
             /\ pc' = pc /\ dev' = dev
             /\ Phase' = Phase
             /\ ActiveCallId' = ActiveCallId
             /\ Muted' = Muted
             /\ out'.events # <<>>]_vars

\* C8: a connect request is issued to the endpoint only when the phase is
\* Ready and the destination is not blank; placeCall without a registered
\* endpoint or with a blank destination issues none.
C8_ConnectOnlyWhenReady ==
    [][/\ "connect" \in out'.reqs => (Phase = "Ready" /\ out'.dest # "")
       /\ (out'.op = "placeCall"
             /\ (device = 0 \/ dev[device] # "registered" \/ out'.dest = ""))
            => ("connect" \notin out'.reqs /\ Reported(out', "error"))]_vars

\* The guards the functions have: placeCall without an endpoint or without a
\* destination, hangupCall and toggleMute without an active connection.
GuardRejected ==
    \/ out'.op = "placeCall" /\ (device = 0 \/ out'.dest = "")
    \/ out'.op \in {"hangupCall", "toggleMute"} /\ activeConnection = 0

C10_HangUpEndsOnDisconnectSignal ==
    [][/\ (out'.op = "hangupCall" /\ Phase \in {"InCall", "Dialing"})
            => /\ Phase' = "Ending"
               /\ "disconnect" \in out'.reqs
               /\ ActiveCallId # 0
               /\ ActiveCallId' = ActiveCallId
               /\ Muted' = Muted
       /\ (out'.op = "disconnect" /\ Phase = "Ending")
            => (Phase' = "Ready" /\ ActiveCallId' = 0 /\ ~Muted')]_vars

\* C11: hangUp() with no active call, in whatever phase and also before any
\* endpoint was constructed, raises no error, requests no disconnect and
\* leaves phase, activeCallId and muted unchanged.
C11_HangUpWithoutCallIsNoOp ==
    [][(out'.op = "hangupCall" /\ ActiveCallId = 0)
          => /\ ~out'.threw
             /\ "disconnect" \notin out'.reqs
             /\ call' = call
             /\ Phase' = Phase
             /\ ActiveCallId' = 0
             /\ Muted' = Muted]_vars

\* C11 witness: hangupCall has just returned with no active connection and
\* with no endpoint ever constructed.
C11_Witness ==
    /\ out.op = "hangupCall"
    /\ out.call = 0
    /\ activeConnection = 0
    /\ \A i \in DeviceIds : dev[i] = "none"

\* C12: a toggleMute() in phase InCall hands the new value of muted to the
\* mute control of the active call, and the second of two consecutive
\* toggleMute() calls in phase InCall brings muted back to the value it had
\* before the first.
C12_DoubleToggleRestoresMuted ==
    [][(out'.op = "toggleMute" /\ Phase = "InCall")
          => /\ "mute" \in out'.reqs
             /\ ActiveCallId # 0
             /\ connMuted'[activeConnection] = Muted'
             /\ Muted' # Muted
             /\ toggles'.n = 2 => Muted' = toggles'.base]_vars

\* C12 witness: two consecutive toggleMute() calls in phase InCall, made on a
\* call that was muted before the first, have just ended.
C12_Witness ==
    /\ out.op = "toggleMute"
    /\ toggles.n = 2
    /\ toggles.base
    /\ muted
    /\ connMuted[activeConnection]

\* C13: toggleMute() in a phase other than InCall does not change muted, does
\* not call the mute control of any call, and reports a diagnostic.
C13_ToggleMuteOutsideInCallRejected ==
    [][(out'.op = "toggleMute" /\ Phase # "InCall")
          => /\ Muted' = Muted
             /\ "mute" \notin out'.reqs
             /\ connMuted' = connMuted
             /\ out'.events # <<>>]_vars

\* C14: a token request answered with a non-success status makes initialize()
\* fail with TokenRequestFailed: the phase becomes Failed, lastError is the
\* token failure, and no endpoint is constructed or registered.
C14_TokenFailureFailsInitialize ==
    [][(out'.op = "tokenFail" /\ mounted)
          => /\ Phase' = "Failed"
             /\ LastError' = "TokenRequestFailed"
             /\ dev' = dev
             /\ out'.reqs \cap {"construct", "register"} = {}]_vars

\* C15: the error signal of a constructed endpoint moves the phase to Failed
\* and records lastError; a placeCall issued while the phase is still Failed
\* on that error issues no connect request and is rejected with an error
\* diagnostic.
C15_EndpointErrorFailsAndBlocksCalls ==
    [][/\ (out'.op = "error" /\ mounted)
            => (Phase' = "Failed" /\ LastError' = "EndpointError")
       /\ (out'.op = "placeCall" /\ Phase = "Failed"
                                 /\ LastError = "EndpointError")
            => ("connect" \notin out'.reqs /\ Reported(out', "error"))]_vars

\* The steps that belong to initialize(): its invocation and the answers to
\* the requests it awaits.
InitializeOps ==
    {"initDevice", "micGranted", "micDenied", "tokenOk", "tokenFail",
     "registerRejected"}

\* C16: once the phase is Failed, no step other than initialize() or the
\* teardown changes it: neither placeCall, hangUp or toggleMute nor a signal
\* of the endpoint.
C16_FailedUntilInitialize ==
    [][(Phase = "Failed" /\ out'.op \notin InitializeOps \cup {"unmount"})
          => Phase' = "Failed"]_vars

\* C17: an incoming-call signal received in phase Ready is accepted at once
\* and enters InCall with the entry actions of a confirmed placed call: the
\* call is the active call, the default output is selected, a volume listener
\* is attached to the call, and mute is cleared on the call and in the state.
C17_IncomingEntersInCall ==
    [][(out'.op = "incoming" /\ mounted /\ Phase = "Ready")
          => /\ "accept" \in out'.reqs
             /\ Phase' = "InCall"
             /\ ActiveCallId' = out'.call
             /\ {"selectOutput", "volumeListener", "mute"} \subseteq out'.reqs
             /\ ~connMuted'[out'.call]
             /\ ~Muted']_vars

\* C18: once the component is unmounted, no call is connecting or connected
\* and no endpoint is registering or registered.
C18_NothingLeftAfterUnmount ==
    ~mounted
        => /\ \A c \in CallIds : call[c] \notin LiveCall
           /\ \A i \in DeviceIds : dev[i] \notin {"registering", "registered"}

\* The session state is left as it was.
SessionUnchanged ==
    Phase' = Phase /\ ActiveCallId' = ActiveCallId /\ Muted' = Muted

\* C19: a signal delivered again leaves phase, activeCallId and muted as the
\* first delivery left them: a connect signal for the call that is already
\* the active call in InCall does not reset muted and attaches no further
\* volume listener; a disconnect signal for a call already confirmed
\* disconnected, received in Ready, changes nothing; nor does a registered
\* signal repeated for the same endpoint, nor a device-change notification.
C19_DuplicateSignalsChangeNothing ==
    [][/\ (out'.op = "connect" /\ Phase = "InCall"
                               /\ ActiveCallId = out'.call)
            => (SessionUnchanged /\ "volumeListener" \notin out'.reqs)
       /\ (out'.op = "disconnect" /\ Phase = "Ready"
                                  /\ call[out'.call] = "closed")
            => SessionUnchanged
       /\ (out.op = "registered" /\ out'.op = "registered"
                                 /\ device' = device)
            => SessionUnchanged
       /\ out'.op = "deviceChange" => SessionUnchanged]_vars

\* C20: after the teardown, the late result of something started before it
\* (the microphone or token answer, a registered, connect or incoming signal)
\* constructs no endpoint, leaves the phase Uninitialized and sets no
\* activeCallId.
C20_LateResultsAfterTeardownIgnored ==
    [][~mounted
          => /\ "construct" \notin out'.reqs
             /\ \A i \in DeviceIds : dev[i] = "none" => dev'[i] = "none"
             /\ Phase' = "Uninitialized"
             /\ ActiveCallId' = 0]_vars

\* C21: the default output is selected by every connect or incoming signal
\* that enters InCall and by every device-change notification, in whatever
\* phase, and a device-change notification changes none of phase,
\* activeCallId and muted.
C21_OutputReboundOnInCallAndDeviceChange ==
    [][/\ (mounted /\ out'.op \in {"connect", "incoming"}
                   /\ Phase # "InCall" /\ Phase' = "InCall")
            => "selectOutput" \in out'.reqs
       /\ (mounted /\ out'.op = "deviceChange")
            => ("selectOutput" \in out'.reqs /\ SessionUnchanged)]_vars

\* C22: the diagnostic sink does not affect control flow: a handler that runs
\* while the sink is absent (the log textarea is gone) is not cut short by an
\* exception; it runs to its end and issues its requests as it does with the
\* sink present.
C22_AbsentSinkCutsNoHandler ==
    [][~mounted => ~out'.threw]_vars

\* C23: every step of the mounted component that changes the phase, and every
\* operation rejected by a guard, adds exactly one event to the log.
C23_OneEventPerTransition ==
    [][(mounted /\ (Phase' # Phase \/ GuardRejected))
          => Len(out'.events) = 1]_vars

\* C24: the teardown actions run only when the component is unmounted: no
\* other step destroys an endpoint, and placing a call or a connect,
\* disconnect or registered signal asks no call to disconnect.
C24_TeardownOnlyOnUnmount ==
    [][out'.op # "unmount"
          => /\ "destroy" \notin out'.reqs
             /\ \A i \in DeviceIds :
                    dev[i] # "destroyed" => dev'[i] # "destroyed"
             /\ out'.op \in {"placeCall", "connect", "disconnect", "registered"}
                    => "disconnect" \notin out'.reqs]_vars

\* C25: a disconnect signal that concerns another call than the tracked one
\* leaves the tracked call and the phase alone while the tracked call is
\* still dialing or connected.
C25_LateDisconnectOfOtherCallIgnored ==
    [][(mounted /\ out'.op = "disconnect"
                /\ ActiveCallId # 0
                /\ ActiveCallId # out'.call
                /\ call[ActiveCallId] \in LiveCall)
          => (ActiveCallId' = ActiveCallId /\ Phase' = Phase)]_vars

\* C26: no call is orphaned: while the component is mounted, every call that
\* is connecting or connected at an endpoint is the call the component
\* tracks.
C26_NoOrphanedCall ==
    mounted => \A c \in CallIds : call[c] \in LiveCall => ActiveCallId = c

\* The endpoints that were constructed and not destroyed: their handlers are
\* attached and act on the component's state.
LiveDevices ==
    {i \in DeviceIds : dev[i] \in {"constructed", "registering", "registered"}}

\* C27: at most one endpoint is live at any time, however initialize() is
\* repeated or overlapped.
C27_AtMostOneLiveEndpoint ==
    Cardinality(LiveDevices) <= 1

\* C28: while the phase is InCall the muted flag is the value last given to
\* the mute control of the tracked call, and muted is false whenever no call
\* is tracked.
C28_MutedMatchesEndpoint ==
    /\ (Phase = "InCall" /\ ActiveCallId # 0)
          => (Muted <=> connMuted[activeConnection])
    /\ ActiveCallId = 0 => ~Muted


\* The phases in which initDevice() is waiting for an answer.
TransientPhases == {"AcquiringToken", "Registering"}

\* C29: every initialize() leaves the transient phases.  When the microphone
\* prompt, the token fetch and the register request are each answered, a
\* phase of AcquiringToken or Registering is eventually left; and the phase
\* becomes Ready only when an endpoint was asked to register and signalled
\* registered (an endpoint is destroyed only after it registered).
C29_InitializeLeavesTransientPhases ==
    /\ (Phase \in TransientPhases) ~> (Phase \notin TransientPhases)
    /\ [][(Phase # "Ready" /\ Phase' = "Ready")
             => \E i \in DeviceIds : dev'[i] \in {"registered", "destroyed"}]_vars

\* C30: the unmute retry is bounded and dies with its call.  A retry that is
\* pending for a call is eventually not pending any more, whether or not the
\* call's mute control is ever found (every timer that was set runs); and a
\* retry or a delayed unmute that runs for a call the endpoint has closed, or
\* for a call that another call has replaced as the tracked one, asks for
\* nothing: no mute(false), no further timer.
C30_RetryBoundedAndDiesWithCall ==
    /\ \A c \in CallIds : (timers[c] \in RetryPending) ~> (timers[c] \notin RetryPending)
    /\ [][(/\ out'.op \in {"retryTimer", "unmuteTimer"}
           /\ \/ call[out'.call] = "closed"
              \/ (mounted /\ activeConnection \notin {0, out'.call}))
             => out'.reqs = {}]_vars

====
